---- MODULE Spec2Model ----
(***************************************************************************)
(* Model of the packing2 tree packer: SimulationParameters (parameter      *)
(* store), BufferManager (tree / staging buffers), PhysicsSimulator        *)
(* (reset, feedback passes, resize) and TreePackerApp (render loop, step,  *)
(* parameter observers).                                                   *)
(*                                                                         *)
(* JavaScript runs one task at a time: every action below is one task      *)
(* (an animation-frame callback, a UI event, a direct API call, or the     *)
(* continuation of an awaited mapAsync promise) run to completion.         *)
(* The GPU kernel is a black box: what a readback contains is an input     *)
(* of the map-resolution action, abstracted to the bounding box that the   *)
(* record loop computes from it.                                           *)
(***************************************************************************)
EXTENDS Integers, Sequences, FiniteSets, TLC

(* ---------------- program constants ---------------- *)
FLOATS_PER_TREE == 8
BYTES_PER_FLOAT == 4
ScoreInterval == 10
DefaultTreeCount == 10
DefaultCompression == 1
TreeCountMin == 1
TreeCountMax == 200
RenderFrequencyMin == 1
RenderFrequencyMax == 30

(* ---------------- bounds of the model ---------------- *)
MaxTrees == 1
MaxCoord == 1
MaxFrame == 11
MaxPasses == 2
MaxStagnation == 2
MaxRenderFreq == 2
MaxCallbacks == 2
MaxSpawnTrees == 2
RandomSteps == 2
MaxAspect == 2

(* tree counts tried as inputs: small ones, the default, and two that      *)
(* the validation rejects                                                  *)
TreeCountValues == (1..MaxTrees) \cup {DefaultTreeCount}
TreeCountInputs == TreeCountValues \cup {TreeCountMin - 1, TreeCountMax + 1}
RenderFreqInputs == (1..MaxRenderFreq) \cup {RenderFrequencyMin - 1, RenderFrequencyMax + 1}

(* buffer objects.  Staging buffers: the current one, one per outstanding  *)
(* pass, and a fresh one.  Tree buffers: the current one and a fresh one.  *)
ReadIds == 1..(MaxPasses + 2)
TreeIds == 1..2

(* ---------------- JavaScript values ---------------- *)
Null == <<>>
Some(x) == <<x>>

JSNum(n) == [t |-> "num", v |-> n]
JSUndefined == [t |-> "undefined", v |-> 0]
JSNaN == [t |-> "nan", v |-> 0]
(* a * b : NaN unless both operands are numbers *)
JSTimes(a, b) == IF a.t = "num" /\ b.t = "num" THEN JSNum(a.v * b.v) ELSE JSNaN
(* a < b : false as soon as one operand is NaN *)
JSLess(a, b) == a.t = "num" /\ b.t = "num" /\ a.v < b.v

(* scores and probabilities are quotients of small integers; Infinity is   *)
(* the initial bestScore                                                   *)
Infinity == [inf |-> TRUE, n |-> 0, d |-> 1]
Ratio(n, d) == [inf |-> FALSE, n |-> n, d |-> d]
RatLess(a, b) == ~a.inf /\ (b.inf \/ a.n * b.d < b.n * a.d)
RatLeq(a, b) == ~RatLess(b, a)
Half == Ratio(1, 2)

Max2(a, b) == IF a > b THEN a ELSE b

(* ---------------- bounds records ---------------- *)
Coords == 0..MaxCoord
InitialBounds == [nan |-> FALSE, minX |-> -1, maxX |-> 1, minY |-> -1, maxY |-> 1]
NaNBounds == [nan |-> TRUE, minX |-> 0, maxX |-> 0, minY |-> 0, maxY |-> 0]
MkBounds(x0, x1, y0, y1) == [nan |-> FALSE, minX |-> x0, maxX |-> x1, minY |-> y0, maxY |-> y1]
BoundsInputs == {MkBounds(x0, x1, y0, y1) : x0 \in {0}, x1 \in Coords, y0 \in {0}, y1 \in Coords}

VARIABLES
    params,               \* SimulationParameters._params
    treeBuffer,           \* BufferManager.treeBuffer   [id, size]
    readBuffer,           \* BufferManager.readBuffer   [id, size]
    mapState,             \* GPUBuffer map state of every buffer object
    needsReset,           \* PhysicsSimulator.needsReset
    isProcessingFeedback, \* PhysicsSimulator.isProcessingFeedback
    bestScore,            \* PhysicsSimulator.bestScore
    stagnationCount,      \* PhysicsSimulator.stagnationCount
    currentBounds,        \* PhysicsSimulator.currentBounds
    passes,               \* feedback passes suspended at await mapAsync
    stalePasses,          \* the passes among them that a reset has run under
    computeBindGroup,     \* PipelineManager.computeBindGroup: the tree buffer it binds
    populated,            \* the tree buffer holds tree data written by reset
    isRunning,            \* TreePackerApp.isRunning
    frameCount,           \* TreePackerApp.frameCount
    currentProbX,         \* TreePackerApp.currentProbX
    currentScoreData,     \* TreePackerApp.currentScoreData
    last,                 \* what the last task did: operation, effects in order, result
    store,                \* SimulationParameters._params of a store standing alone
    observers,            \* SimulationParameters._observers of that store
    storeLast,            \* the last call on that store: arguments, result, callbacks run
    constraints,          \* SimulationParameters._constraints of that store
    fnLast,               \* the last function applied on its own: name, arguments, output
    scheduled,            \* renderLoop callbacks requested for the next animation frame
    frameQueue,           \* renderLoop callbacks still to run in the current animation frame
    frameStart            \* TreePackerApp.frameCount when the current animation frame began

vars == <<params, treeBuffer, readBuffer, mapState, needsReset, isProcessingFeedback,
          bestScore, stagnationCount, currentBounds, passes, stalePasses, computeBindGroup,
          populated, isRunning,
          frameCount, currentProbX, currentScoreData, last, store, observers, storeLast, constraints,
          fnLast,
          scheduled, frameQueue, frameStart>>

simVars == <<needsReset, isProcessingFeedback, bestScore, stagnationCount, currentBounds>>
bufVars == <<treeBuffer, readBuffer, mapState>>
appVars == <<isRunning, frameCount, currentProbX, currentScoreData>>
storeVars == <<store, observers, storeLast, constraints>>
loopVars == <<scheduled, frameQueue, frameStart>>
gpuVars == <<computeBindGroup, populated>>


(* ---------------- the state a task works on ---------------- *)
(* Handlers call one another; each callee below maps the state it finds   *)
(* to the state it leaves.  ev are the effects of the task in program     *)
(* order, micro the effects of promise continuations that run when the    *)
(* task's synchronous code has finished, res the value returned by the    *)
(* last call.                                                              *)
Cur ==
    [needsReset |-> needsReset, gate |-> isProcessingFeedback, best |-> bestScore,
     stag |-> stagnationCount, bounds |-> currentBounds, passes |-> passes,
     stale |-> stalePasses, bg |-> computeBindGroup, populated |-> populated,
     dispatched |-> Null,
     ms |-> mapState, tb |-> treeBuffer, rb |-> readBuffer,
     retired |-> {}, ev |-> <<>>, micro |-> <<>>, res |-> "none", snap |-> Null,
     uni |-> Null, written |-> Null, uniCompression |-> Null]

Min(S) == CHOOSE x \in S : \A y \in S : x <= y

(* the staging buffers something still refers to *)
LiveIds(s) == {s.rb.id} \cup {p.rb : p \in s.passes}

(* device.createBuffer: a new buffer object, unmapped; it is none of the   *)
(* objects still referred to, nor the one this task has just let go of    *)
FreshReadId(s) == Min(ReadIds \ (LiveIds(s) \cup s.retired))
FreshTreeId(s) == Min(TreeIds \ {s.tb.id})

(* buffer objects nothing refers to any more are forgotten *)
Collect(s) == [i \in ReadIds |-> IF i \in LiveIds(s) THEN s.ms[i] ELSE "unmapped"]

(* ---------------- BufferManager ---------------- *)
createTreeBuffer(s, treeCount) ==
    LET treeDataSize == treeCount * FLOATS_PER_TREE * BYTES_PER_FLOAT
        id == FreshTreeId(s)
    IN [s EXCEPT !.tb = [id |-> id, size |-> treeDataSize],
                 !.populated = FALSE,
                 !.ev = Append(@, "createTreeBuffer")]

createReadBuffer(s, treeCount) ==
    LET treeDataSize == treeCount * FLOATS_PER_TREE * BYTES_PER_FLOAT
        id == FreshReadId(s)
    IN [s EXCEPT !.rb = [id |-> id, size |-> treeDataSize],
                 !.retired = @ \cup {s.rb.id},
                 !.ms[id] = "unmapped",
                 !.ev = Append(@, "createReadBuffer")]

(* resizeTreeBuffers without the size comparison: it always reallocates *)
resizeTreeBuffersAlways(s, newTreeCount) ==
    [createReadBuffer(createTreeBuffer(s, newTreeCount), newTreeCount)
        EXCEPT !.res = "true"]

(* resizeTreeBuffers that forgets the staging buffer *)
resizeTreeBufferOnly(s, newTreeCount) ==
    LET currentSize == s.tb.size
        newSize == newTreeCount * FLOATS_PER_TREE * BYTES_PER_FLOAT
    IN IF currentSize # newSize
       THEN [createTreeBuffer(s, newTreeCount) EXCEPT !.res = "true"]
       ELSE [s EXCEPT !.res = "false"]

resizeTreeBuffers(s, newTreeCount) ==
    LET currentSize == s.tb.size
        newSize == newTreeCount * FLOATS_PER_TREE * BYTES_PER_FLOAT
    IN IF currentSize # newSize
       THEN [createReadBuffer(createTreeBuffer(s, newTreeCount), newTreeCount)
                EXCEPT !.res = "true"]
       ELSE [s EXCEPT !.res = "false"]

(* ---------------- PhysicsSimulator ---------------- *)
markForReset(s) == [s EXCEPT !.needsReset = TRUE]

(* reset that leaves the reset flag set *)
resetKeepsFlag(s) ==
    [s EXCEPT !.gate = FALSE,
              !.best = Infinity,
              !.stag = 0,
              !.stale = s.passes,
              !.populated = TRUE,
              !.ev = @ \o <<"reset", "writeTreeData">>]

reset(s) ==
    [s EXCEPT !.gate = FALSE,
              !.best = Infinity,
              !.stag = 0,
              !.needsReset = FALSE,
              !.stale = s.passes,
              !.populated = TRUE,
              !.ev = @ \o <<"reset", "writeTreeData">>]

(* numbers of the form (n / d) * sqrt(root); root is 1 for a quotient *)
Surd(n, d, root) == [n |-> n, d |-> d, root |-> root]
Math_sqrt(k) == Surd(1, 1, k)
SurdTimes(x, n, d) == Surd(x.n * n, x.d * d, x.root)
Zero == Surd(0, 1, 1)
(* the values of Math.random(): k / RandomSteps, below 1 *)
RandomDraws == 0..(RandomSteps - 1)
(* Math.random() - 0.5 as a quotient n / d *)
Centred(k) == [n |-> 2 * k - RandomSteps, d |-> 2 * RandomSteps]
(* the draws tried for one tree: position.x and the rotation from one    *)
(* value, position.y from the value mirrored in the range                 *)
TreeDraws == {[x |-> a, y |-> RandomSteps - 1 - a, r |-> a] : a \in RandomDraws}

(* treeData with a random initial velocity.x *)
spawnTreeDataMoving(treeCount, rnd) ==
    LET spread == SurdTimes(Math_sqrt(treeCount), 2, 1)
    IN [j \in 1..(treeCount * FLOATS_PER_TREE) |->
          LET i == ((j - 1) \div FLOATS_PER_TREE) + 1
              lane == (j - 1) % FLOATS_PER_TREE
          IN CASE lane = 0 -> SurdTimes(spread, Centred(rnd[i].x).n, Centred(rnd[i].x).d)
               [] lane = 1 -> SurdTimes(spread, Centred(rnd[i].y).n, Centred(rnd[i].y).d)
               [] lane = 2 -> SurdTimes(spread, Centred(rnd[i].x).n, Centred(rnd[i].x).d)
               [] lane = 4 -> Surd(rnd[i].r * 628, RandomSteps * 100, 1)
               [] OTHER -> Zero]

(* the array reset() fills and writes to the tree buffer; rnd[i] are the  *)
(* three draws of Math.random() for tree i                                *)
spawnTreeData(treeCount, rnd) ==
    LET spread == SurdTimes(Math_sqrt(treeCount), 2, 1)
    IN [j \in 1..(treeCount * FLOATS_PER_TREE) |->
          LET i == ((j - 1) \div FLOATS_PER_TREE) + 1
              lane == (j - 1) % FLOATS_PER_TREE
          IN CASE lane = 0 -> SurdTimes(spread, Centred(rnd[i].x).n, Centred(rnd[i].x).d)
               [] lane = 1 -> SurdTimes(spread, Centred(rnd[i].y).n, Centred(rnd[i].y).d)
               [] lane = 4 -> Surd(rnd[i].r * 628, RandomSteps * 100, 1)
               [] OTHER -> Zero]

(* JavaScript numbers that are quotients, and a > b, a < b on values     *)
(* that may be undefined or NaN                                            *)
JSQuot(n, d) == [t |-> "num", v |-> Ratio(n, d)]
QuotLess(a, b) == a.t = "num" /\ b.t = "num" /\ RatLess(a.v, b.v)
QuotGreater(a, b) == QuotLess(b, a)
(* feedbackData arguments: null, undefined, or an object with or without *)
(* a currentAspect                                                         *)
JSNull == [t |-> "null", v |-> 0]
FeedbackData(currentAspect) == [t |-> "object", currentAspect |-> currentAspect]
(* the truth value of null, undefined, NaN, a boolean or an object *)
Truthy(x) == x.t \notin {"null", "undefined", "nan"} /\ ~(x.t = "boolean" /\ x.v = 0)
Probabilities(x, y) == [probX |-> x, probY |-> y]

(* the comparison with >= in place of > *)
calculateCompressionProbabilitiesTies(autoPack, targetAspect, feedbackData) ==
    IF Truthy(autoPack) /\ Truthy(feedbackData)
    THEN LET currentAspect == feedbackData.currentAspect
         IN IF ~QuotLess(currentAspect, targetAspect)
            THEN Probabilities(Ratio(6, 5), Ratio(4, 5))
            ELSE IF QuotLess(currentAspect, targetAspect)
            THEN Probabilities(Ratio(4, 5), Ratio(6, 5))
            ELSE Probabilities(Ratio(1, 1), Ratio(1, 1))
    ELSE Probabilities(Ratio(1, 1), Ratio(1, 1))

(* PhysicsSimulator.calculateCompressionProbabilities; autoPack and       *)
(* targetAspect are what parameters.get returns                            *)
calculateCompressionProbabilities(autoPack, targetAspect, feedbackData) ==
    IF Truthy(autoPack) /\ Truthy(feedbackData)
    THEN LET currentAspect == feedbackData.currentAspect
         IN IF QuotGreater(currentAspect, targetAspect)
            THEN Probabilities(Ratio(6, 5), Ratio(4, 5))
            ELSE IF QuotLess(currentAspect, targetAspect)
            THEN Probabilities(Ratio(4, 5), Ratio(6, 5))
            ELSE Probabilities(Ratio(1, 1), Ratio(1, 1))
    ELSE Probabilities(Ratio(1, 1), Ratio(1, 1))

(* handleTreeCountChange that resizes without asking for a reset *)
SimHandleTreeCountChangeUnmarked(s, newTreeCount) ==
    resizeTreeBuffers(s, newTreeCount)

SimHandleTreeCountChange(s, newTreeCount) ==
    LET r == resizeTreeBuffers(s, newTreeCount)
    IN IF r.res = "true" THEN markForReset(r) ELSE r

(* the static property PhysicsSimulator.FLOATS_PER_TREE is never defined *)
PhysicsSimulator_FLOATS_PER_TREE == JSUndefined

(* the synchronous part of updateScore / processFeedbackLoop, up to the   *)
(* await.  fault = "throw": the buffer layer throws before anything is    *)
(* issued.  mapAsync on a buffer that is mapped or has a map pending      *)
(* rejects; the rejection is handled when the task's code has finished.   *)
CallPass(s, kind, caller, fault, treeCount) ==
    LET copy == IF kind = "updateScore" THEN <<"copy">> ELSE <<>>
        pass == [kind |-> kind, caller |-> caller, tc |-> treeCount,
                 rb |-> s.rb.id, rbSize |-> s.rb.size]
    IN IF s.gate
       THEN [s EXCEPT !.ev = @ \o <<"call">>,
                      !.micro = @ \o <<"return:null">>,
                      !.res = "null"]
       ELSE IF fault = "throw"
       THEN [s EXCEPT !.gate = FALSE,
                      !.ev = @ \o <<"call", "gate", "throw">>,
                      !.micro = @ \o <<"logError", "return:null">>,
                      !.res = "null"]
       ELSE IF s.ms[s.rb.id] # "unmapped"
       THEN [s EXCEPT !.gate = FALSE,
                      !.ev = @ \o <<"call", "gate">> \o copy \o <<"mapAsync">>,
                      !.micro = @ \o <<"mapRejected", "logError", "return:null">>,
                      !.res = "null"]
       ELSE [s EXCEPT !.gate = TRUE,
                      !.ms[s.rb.id] = "pending",
                      !.passes = @ \cup {pass},
                      !.ev = @ \o <<"call", "gate">> \o copy \o <<"mapAsync">>,
                      !.res = "pending"]

(* the mapped array holds fewer floats than the pass's treeCount records *)
ShortReadback(p, length) == length.v < p.tc * FLOATS_PER_TREE

(* noted in the task's effects when the readback a pass maps is short *)
Observe(p, length) == IF ShortReadback(p, length) THEN <<"short">> ELSE <<>>

(* the snapshot with <= in place of < : a tie counts as an improvement *)
ScoreSnapshotTieImproves(b, coll, treeCount, best, stag) ==
    LET w == b.maxX - b.minX
        h == b.maxY - b.minY
        side == Max2(w, h)
        probX == IF (w + h) > 0 THEN Ratio(w, w + h) ELSE Half
        score == Ratio(side * side, treeCount)
        improved == RatLeq(score, best)
    IN [bounds |-> b, score |-> score,
        bestScore |-> IF improved THEN score ELSE best,
        collisionCount |-> coll, probX |-> probX, width |-> w, height |-> h,
        side |-> side,
        stagnationCount |-> IF improved THEN 0 ELSE stag + 1]

(* the snapshot updateScore returns (the wind fields, which depend on     *)
(* the rotations only, are left out)                                      *)
ScoreSnapshot(b, coll, treeCount, best, stag) ==
    LET w == b.maxX - b.minX
        h == b.maxY - b.minY
        side == Max2(w, h)
        probX == IF (w + h) > 0 THEN Ratio(w, w + h) ELSE Half
        score == Ratio(side * side, treeCount)
        improved == RatLess(score, best)
    IN [bounds |-> b, score |-> score,
        bestScore |-> IF improved THEN score ELSE best,
        collisionCount |-> coll, probX |-> probX, width |-> w, height |-> h,
        side |-> side,
        stagnationCount |-> IF improved THEN 0 ELSE stag + 1]

(* updateScore resumed after mapAsync resolved.  hasBounds = FALSE is a   *)
(* readback in which no vertex is finite (minX stays Infinity).           *)
ResumeUpdateScore(s, p, hasBounds, b, coll) ==
    LET length == JSNum(p.rbSize \div BYTES_PER_FLOAT)
        s1 == [s EXCEPT !.ms[p.rb] = "mapped", !.passes = @ \ {p},
                        !.ev = @ \o <<"resume">> \o Observe(p, length)]
        expectedSize == JSTimes(JSNum(p.tc), JSNum(FLOATS_PER_TREE))
        snap == ScoreSnapshot(b, coll, p.tc, s.best, s.stag)
    IN IF JSLess(length, expectedSize)
       THEN [s1 EXCEPT !.gate = FALSE,
                       !.ev = @ \o <<"underflow", "logError", "return:null">>,
                       !.res = "null"]
       ELSE IF hasBounds
       THEN [s1 EXCEPT !.ms[p.rb] = "unmapped",
                       !.best = snap.bestScore,
                       !.stag = snap.stagnationCount,
                       !.bounds = b,
                       !.gate = FALSE,
                       !.ev = @ \o <<"interpret", "unmap", "return:snapshot">>,
                       !.res = "snapshot",
                       !.snap = Some(snap)]
       ELSE [s1 EXCEPT !.ms[p.rb] = "unmapped",
                       !.gate = FALSE,
                       !.ev = @ \o <<"interpret", "unmap", "return:null">>,
                       !.res = "null"]

(* processFeedbackLoop resumed after mapAsync resolved.  Records beyond   *)
(* the end of the mapped array read as undefined, and Math.min / Math.max *)
(* with undefined give NaN.                                                *)
ResumeFeedbackLoop(s, p, b) ==
    LET length == JSNum(p.rbSize \div BYTES_PER_FLOAT)
        s1 == [s EXCEPT !.ms[p.rb] = "mapped", !.passes = @ \ {p},
                        !.ev = @ \o <<"resume">> \o Observe(p, length)]
        expectedSize == JSTimes(JSNum(p.tc), PhysicsSimulator_FLOATS_PER_TREE)
        short == ShortReadback(p, length)
        bnds == IF short THEN NaNBounds ELSE b
    IN IF JSLess(length, expectedSize)
       THEN [s1 EXCEPT !.gate = FALSE,
                       !.ev = @ \o <<"underflow", "logError", "return:null">>,
                       !.res = "null"]
       ELSE [s1 EXCEPT !.ms[p.rb] = "unmapped",
                       !.bounds = bnds,
                       !.gate = FALSE,
                       !.ev = @ \o <<"interpret", "unmap", "return:snapshot">>,
                       !.res = "snapshot"]

(* either pass resumed after mapAsync rejected *)
RejectPass(s, p) ==
    [s EXCEPT !.ms[p.rb] = "unmapped", !.passes = @ \ {p},
              !.gate = FALSE,
              !.ev = @ \o <<"mapRejected", "logError", "return:null">>,
              !.res = "null"]


(* ---------------- SimulationParameters ---------------- *)
Constraints ==
    [treeCount |-> [min |-> TreeCountMin, max |-> TreeCountMax],
     renderFrequency |-> [min |-> RenderFrequencyMin, max |-> RenderFrequencyMax]]

ValidateParameter(key, value) ==
    /\ key \in DOMAIN Constraints
    /\ ~(value < Constraints[key].min)
    /\ ~(value > Constraints[key].max)

(* ---------------- SimulationParameters standing alone ---------------- *)
(* The store with typed values, any key, and subscribers that come and    *)
(* go.  Of the numeric parameters treeCount and renderFrequency are       *)
(* modelled; zoom, compression, relaxationRate and aspect go through the  *)
(* same branch of _validateParameter.                                      *)
JSBool(b) == [t |-> "boolean", v |-> IF b THEN 1 ELSE 0]
JSString(n) == [t |-> "string", v |-> n]
JSFunction == [t |-> "function", v |-> 0]
(* a !== b *)
StrictNotEqual(a, b) == a.t = "nan" \/ b.t = "nan" \/ a # b

StoreConstraints ==
    [treeCount |-> [type |-> "undefined", min |-> Some(TreeCountMin),
                    max |-> Some(TreeCountMax)],
     autoPack |-> [type |-> "boolean", min |-> Null, max |-> Null],
     renderFrequency |-> [type |-> "undefined", min |-> Some(RenderFrequencyMin),
                          max |-> Some(RenderFrequencyMax)]]

DefaultStore ==
    [treeCount |-> JSNum(DefaultTreeCount), autoPack |-> JSBool(TRUE),
     renderFrequency |-> JSNum(1)]

(* the defaults reset() goes through, in order *)
ResetDefaults == <<[key |-> "treeCount", value |-> JSNum(DefaultTreeCount)],
                   [key |-> "autoPack", value |-> JSBool(TRUE)]>>

(* property names every object inherits from Object.prototype; the value  *)
(* found there is a function, which has no type, min or max               *)
InheritedKeys == {"toString"}

StoreKeys == DOMAIN StoreConstraints \cup InheritedKeys \cup {"foo"}
(* numbers tried: just outside and inside the ranges *)
StoreNumbers == {TreeCountMin - 1, TreeCountMin, DefaultTreeCount, TreeCountMax + 1}
StoreValues ==
    {JSNum(n) : n \in StoreNumbers} \cup
    {JSNaN, JSUndefined, JSBool(TRUE), JSBool(FALSE), JSString(DefaultTreeCount)}

Range(seq) == {seq[i] : i \in 1..Len(seq)}

Callbacks == 1..MaxCallbacks
(* what a callback does when it is invoked: unsub is 0 for nothing or c   *)
(* for calling the unsubscribe function of callback c; throws says        *)
(* whether it then throws                                                  *)
Quiet == [unsub |-> 0, throws |-> FALSE]
NoBehaviour == [c \in Callbacks |-> Quiet]
(* the behaviours tried for the callbacks subscribed in obs: at most one  *)
(* of them unsubscribes a subscribed callback (itself or another)         *)
BehavioursOf(obs) ==
    {NoBehaviour} \cup
    {[c \in Callbacks |-> IF c = obs[i] THEN [unsub |-> obs[j], throws |-> FALSE]
                          ELSE Quiet] :
        i \in 1..Len(obs), j \in 1..Len(obs)}
(* the same with callbacks that throw: one callback throws, and one (the  *)
(* same or another) may unsubscribe a subscribed callback                 *)
ThrowingBehavioursOf(obs) ==
    {[c \in Callbacks |-> [unsub |-> IF c = obs[j] THEN u ELSE 0,
                           throws |-> c = obs[i]]] :
        i \in 1..Len(obs), j \in 1..Len(obs), u \in {0} \cup Range(obs)}

(* this._constraints[key] *)
constraintOf(key) ==
    IF key \in DOMAIN constraints THEN Some(constraints[key])
    ELSE IF key \in InheritedKeys
    THEN Some([type |-> "undefined", min |-> Null, max |-> Null])
    ELSE Null

(* this._params[key] *)
get(st, key) ==
    IF key \in DOMAIN st THEN st[key]
    ELSE IF key \in InheritedKeys THEN JSFunction
    ELSE JSUndefined

(* an object handed to the caller: obj its properties, ref the object it *)
(* is, "fresh" for one created by the call                                 *)
Returned(ref, obj) == [ref |-> ref, obj |-> obj]
EmptyObject == [type |-> "undefined", min |-> Null, max |-> Null]

(* getAll that hands out this._params itself *)
getAllAliased(st) == Returned("params", st)

(* getAll: { ...this._params } *)
getAll(st) == Returned("fresh", st)

(* getConstraints: { ...this._constraints[key] } *)
getConstraints(key) ==
    IF constraintOf(key) = Null \/ key \in InheritedKeys THEN Returned("fresh", EmptyObject)
    ELSE Returned("fresh", constraintOf(key)[1])

validateParameter(key, value) ==
    LET constraint == constraintOf(key)
    IN IF constraint = Null THEN FALSE
       ELSE IF constraint[1].type = "boolean" THEN value.t = "boolean"
       ELSE IF value.t # "num" THEN FALSE
       ELSE IF constraint[1].min # Null /\ value.v < constraint[1].min[1] THEN FALSE
       ELSE IF constraint[1].max # Null /\ value.v > constraint[1].max[1] THEN FALSE
       ELSE TRUE

(* the function subscribe returned for callback c: indexOf, splice *)
unsubscribe(obs, c) ==
    IF c \in Range(obs)
    THEN LET index == Min({i \in 1..Len(obs) : obs[i] = c})
         IN [i \in 1..(Len(obs) - 1) |-> IF i < index THEN obs[i] ELSE obs[i + 1]]
    ELSE obs

subscribe(obs, c) == Append(obs, c)

(* Array.prototype.forEach over the live _observers array: the length is  *)
(* read once, index k is visited if the array still has it; what the      *)
(* callback throws is caught and logged with console.error                *)
RECURSIVE forEachObserver(_, _, _, _, _, _)
forEachObserver(obs, k, len, beh, args, ev) ==
    IF k > len THEN [observers |-> obs, ev |-> ev]
    ELSE IF k > Len(obs) THEN forEachObserver(obs, k + 1, len, beh, args, ev)
    ELSE LET c == obs[k]
             called == Append(ev, <<"call", c, args>>)
             obs1 == IF beh[c].unsub = 0 THEN obs ELSE unsubscribe(obs, beh[c].unsub)
             ev1 == IF beh[c].unsub = 0 THEN called
                    ELSE Append(called, <<"unsub", beh[c].unsub, <<>>>>)
             ev2 == IF beh[c].throws THEN Append(ev1, <<"error", c, <<>>>>) ELSE ev1
         IN forEachObserver(obs1, k + 1, len, beh, args, ev2)

notifyObservers(obs, beh, key, newValue, oldValue) ==
    forEachObserver(obs, 1, Len(obs), beh, <<key, newValue, oldValue>>, <<>>)

(* set that notifies whether or not the value changed *)
setAlwaysNotifies(st, obs, beh, key, value) ==
    IF ~validateParameter(key, value)
    THEN [store |-> st, observers |-> obs, res |-> "false", ev |-> <<>>]
    ELSE LET oldValue == get(st, key)
             st1 == [k \in DOMAIN st \cup {key} |-> IF k = key THEN value ELSE st[k]]
             n == notifyObservers(obs, beh, key, value, oldValue)
         IN [store |-> st1, observers |-> n.observers, res |-> "true", ev |-> n.ev]

(* set that stores the value without validating it *)
setUnvalidated(st, obs, beh, key, value) ==
    LET oldValue == get(st, key)
        st1 == [k \in DOMAIN st \cup {key} |-> IF k = key THEN value ELSE st[k]]
        n == IF StrictNotEqual(oldValue, value)
             THEN notifyObservers(obs, beh, key, value, oldValue)
             ELSE [observers |-> obs, ev |-> <<>>]
    IN [store |-> st1, observers |-> n.observers, res |-> "true", ev |-> n.ev]

set(st, obs, beh, key, value) ==
    IF ~validateParameter(key, value)
    THEN [store |-> st, observers |-> obs, res |-> "false", ev |-> <<>>]
    ELSE LET oldValue == get(st, key)
             st1 == [k \in DOMAIN st \cup {key} |-> IF k = key THEN value ELSE st[k]]
             n == IF StrictNotEqual(oldValue, value)
                  THEN notifyObservers(obs, beh, key, value, oldValue)
                  ELSE [observers |-> obs, ev |-> <<>>]
         IN [store |-> st1, observers |-> n.observers, res |-> "true", ev |-> n.ev]

(* reset: Object.keys(defaults).forEach(key => this.set(key, defaults[key])) *)
RECURSIVE storeReset(_, _, _, _, _)
storeReset(st, obs, beh, i, ev) ==
    IF i > Len(ResetDefaults) THEN [store |-> st, observers |-> obs, ev |-> ev]
    ELSE LET r == set(st, obs, beh, ResetDefaults[i].key, ResetDefaults[i].value)
         IN storeReset(r.store, r.observers, beh, i + 1, ev \o r.ev)

(* ---------------- Float32Array ---------------- *)
(* the single-precision float nearest to n / d (n >= 0): a 24-bit         *)
(* significand m over a power of two, ties to the even significand        *)
Float32Exponent(n, d) ==
    CHOOSE e \in 0..30 : n * 2^e >= d * 2^23 /\ n * 2^e < d * 2^24
Float32Round(n, d) ==
    LET e == Float32Exponent(n, d)
        q == (n * 2^e) \div d
        r == (n * 2^e) % d
        m == IF 2 * r > d \/ (2 * r = d /\ q % 2 = 1) THEN q + 1 ELSE q
    IN Ratio(m, 2^e)
(* what a Float32Array element holds after value is stored in it *)
Float32(value) ==
    CASE value.t = "num" ->
            IF value.v.n = 0 THEN JSQuot(0, 1)
            ELSE IF value.v.n > 0
            THEN [t |-> "num", v |-> Float32Round(value.v.n, value.v.d)]
            ELSE LET a == Float32Round(-value.v.n, value.v.d)
                 IN [t |-> "num", v |-> Ratio(-a.n, a.d)]
      [] value.t = "null" -> JSQuot(0, 1)
      [] value.t = "boolean" -> JSQuot(value.v, 1)
      [] OTHER -> JSNaN

(* getUniforms with the neutral bias 1.0 of updateUniforms as default *)
getUniformsBlockDefaultOne(p, time, additionalParams) ==
    LET probX == IF additionalParams.probX = JSUndefined THEN JSQuot(1, 1)
                 ELSE additionalParams.probX
    IN <<Float32(p.zoom), Float32(p.compression), Float32(probX), Float32(time),
         Float32(p.aspect), Float32(JSQuot(0, 1)), Float32(JSQuot(0, 1)),
         Float32(JSQuot(0, 1))>>

(* SimulationParameters.getUniforms: p is this._params, time the         *)
(* frameCount argument; a probX that is absent from additionalParams is   *)
(* undefined                                                               *)
getUniformsBlock(p, time, additionalParams) ==
    LET probX == IF additionalParams.probX = JSUndefined THEN JSQuot(1, 2)
                 ELSE additionalParams.probX
    IN <<Float32(p.zoom), Float32(p.compression), Float32(probX), Float32(time),
         Float32(p.aspect), Float32(JSQuot(0, 1)), Float32(JSQuot(0, 1)),
         Float32(JSQuot(0, 1))>>

(* ---------------- Renderer ---------------- *)
renderFrame(s, shouldReadBack, shouldRunPhysics) ==
    [s EXCEPT !.dispatched =
                  IF shouldRunPhysics
                  THEN Some([bound |-> s.bg, treeBuffer |-> s.tb.id,
                             populated |-> s.populated])
                  ELSE @,
              !.ev = @ \o (IF shouldRunPhysics THEN <<"dispatch">> ELSE <<>>)
                       \o (IF shouldReadBack THEN <<"copyForFeedback">> ELSE <<>>)
                       \o <<"draw", "submit">>]

(* ---------------- uniforms ---------------- *)
(* a || b on numbers: b when a is 0 *)
JSOr(a, b) == IF ~a.inf /\ a.n = 0 THEN b ELSE a

(* TreePackerApp.getEffectiveCompression: the compression ratchet *)
getEffectiveCompression ==
    IF currentScoreData # Null /\ currentScoreData[1].collisionCount > 0 THEN 0
    ELSE params.compression

(* TreePackerApp.getAdditionalUniformParams (the directional bias and the *)
(* ratcheted compression)                                                  *)
getAdditionalUniformParams ==
    [probX |-> JSOr(currentProbX, Half), effectiveCompression |-> getEffectiveCompression]

(* SimulationParameters.getUniforms: lane 1 of the block is the stored    *)
(* compression, lane 2 is probX                                            *)
getUniforms(additionalParams) ==
    [lane1 |-> params.compression, lane2 |-> additionalParams.probX]

(* PhysicsSimulator.updateUniforms: probX is taken out of additionalParams *)
(* and handed on, the block is written to the GPU                          *)
updateUniforms(s, additionalParams) ==
    LET uniforms == getUniforms([probX |-> additionalParams.probX])
    IN [s EXCEPT !.ev = Append(@, "writeUniforms"),
                 !.uni = Some(uniforms.lane2),
                 !.uniCompression = Some(uniforms.lane1)]

(* ---------------- TreePackerApp ---------------- *)
(* handleTreeCountChange that leaves the bind groups as they were *)
AppHandleTreeCountChangeStaleBindGroup(s, newTreeCount) ==
    SimHandleTreeCountChange(s, newTreeCount)

AppHandleTreeCountChange(s, newTreeCount) ==
    LET r == SimHandleTreeCountChange(s, newTreeCount)
    IN IF r.res = "true"
       THEN [r EXCEPT !.bg = r.tb.id, !.ev = Append(@, "updateBindGroup")]
       ELSE r

(* the treeCount observer UIManager.setupParameterObservers subscribes *)
TreeCountObserver(s, value) == AppHandleTreeCountChange(s, value)

(* writes the task's outcome back to the program state *)
CommitTask(s, op, kind, arg) ==
    /\ needsReset' = s.needsReset
    /\ isProcessingFeedback' = s.gate
    /\ bestScore' = s.best
    /\ stagnationCount' = s.stag
    /\ currentBounds' = s.bounds
    /\ passes' = s.passes
    /\ stalePasses' = s.stale \cap s.passes
    /\ computeBindGroup' = s.bg
    /\ populated' = s.populated
    /\ treeBuffer' = s.tb
    /\ readBuffer' = s.rb
    /\ mapState' = Collect(s)
    /\ last' = [op |-> op, kind |-> kind, arg |-> arg, ev |-> s.ev \o s.micro,
                res |-> s.res,
                score |-> IF s.snap = Null THEN Null ELSE Some(s.snap[1].score),
                uni |-> s.uni, written |-> s.written,
                uniCompression |-> s.uniCompression, dispatched |-> s.dispatched]
    /\ UNCHANGED <<storeVars, fnLast>>

(* a task that is not a renderLoop callback *)
Commit(s, op, kind, arg) ==
    /\ CommitTask(s, op, kind, arg)
    /\ UNCHANGED loopVars

(* limits of the model: outstanding passes, and passes that may still     *)
(* add to stagnationCount                                                  *)
WithinBounds(s) ==
    /\ Cardinality(s.passes) <= MaxPasses
    /\ (s.passes # passes => s.stag + Cardinality(s.passes) <= MaxStagnation)

(* the state after construction and init() with treeCount trees *)
(* startRenderLoop: one more renderLoop callback is requested; nothing   *)
(* cancels or detects a chain that already runs                          *)
startRenderLoop(requested) == requested + 1

(* TreePackerApp.init: setupComponents starts the render loop, and init  *)
(* starts it again after the first reset                                  *)
initRenderLoops == startRenderLoop(startRenderLoop(0))

InitFor(treeCount) ==
    /\ params = [treeCount |-> treeCount, renderFrequency |-> 1,
                 compression |-> DefaultCompression]
    /\ treeBuffer = [id |-> 1, size |-> treeCount * FLOATS_PER_TREE * BYTES_PER_FLOAT]
    /\ readBuffer = [id |-> 1, size |-> treeCount * FLOATS_PER_TREE * BYTES_PER_FLOAT]
    /\ mapState = [i \in ReadIds |-> "unmapped"]
    /\ needsReset = FALSE
    /\ isProcessingFeedback = FALSE
    /\ bestScore = Infinity
    /\ stagnationCount = 0
    /\ currentBounds = InitialBounds
    /\ passes = {}
    /\ stalePasses = {}
    /\ computeBindGroup = 1
    /\ populated = TRUE
    /\ isRunning = FALSE
    /\ frameCount = 0
    /\ currentProbX = Half
    /\ currentScoreData = Null
    /\ last = [op |-> "init", kind |-> "none", arg |-> 0, ev |-> <<>>, res |-> "none",
                score |-> Null, uni |-> Null, written |-> Null, uniCompression |-> Null,
                dispatched |-> Null]
    /\ store = DefaultStore
    /\ observers = <<>>
    /\ storeLast = [op |-> "new", key |-> "", value |-> JSUndefined, old |-> JSUndefined,
                    res |-> "none", ev |-> <<>>]
    /\ constraints = StoreConstraints
    /\ fnLast = [fn |-> "none", args |-> <<>>, out |-> <<>>]
    /\ scheduled = initRenderLoops
    /\ frameQueue = 0
    /\ frameStart = 0

Init == InitFor(DefaultTreeCount)

(* a simulator built over a parameter store that holds any small          *)
(* treeCount, 0 included                                                   *)
SpawnCounts == 0..MaxSpawnTrees
InitSpawn == \E treeCount \in SpawnCounts : InitFor(treeCount)

(* renderLoop that starts a scoring pass on every frame it is running *)
TickScoresEveryFrame ==
    /\ frameCount < MaxFrame
    /\ LET s0 == updateUniforms(Cur, getAdditionalUniformParams)
           s1 == IF s0.needsReset THEN reset(s0) ELSE s0
           s2 == IF isRunning
                 THEN CallPass(s1, "updateScore", "app", "none", params.treeCount)
                 ELSE s1
           renderFrequency == params.renderFrequency
           shouldRender == (frameCount % renderFrequency = 0)
           s3 == IF shouldRender THEN renderFrame(s2, FALSE, isRunning) ELSE s2
           s4 == [s3 EXCEPT !.ev = Append(@, "requestAnimationFrame")]
       IN /\ WithinBounds(s4)
          /\ Commit(s4, "tick", "none", 0)
    /\ frameCount' = frameCount + 1
    /\ UNCHANGED <<params, isRunning, currentProbX, currentScoreData>>

(* one iteration of renderLoop *)
Tick ==
    /\ frameCount < MaxFrame
    /\ LET s0 == updateUniforms(Cur, getAdditionalUniformParams)
           s1 == IF s0.needsReset THEN reset(s0) ELSE s0
           s2 == IF isRunning /\ frameCount % ScoreInterval = 0
                 THEN CallPass(s1, "updateScore", "app", "none", params.treeCount)
                 ELSE s1
           renderFrequency == params.renderFrequency
           shouldRender == (frameCount % renderFrequency = 0)
           s3 == IF shouldRender THEN renderFrame(s2, FALSE, isRunning) ELSE s2
           s4 == [s3 EXCEPT !.ev = Append(@, "requestAnimationFrame")]
       IN /\ WithinBounds(s4)
          /\ Commit(s4, "tick", "none", 0)
    /\ frameCount' = frameCount + 1
    /\ UNCHANGED <<params, isRunning, currentProbX, currentScoreData>>

(* step that renders only on the frames the render throttle lets through *)
StepThrottled ==
    /\ frameCount < MaxFrame
    /\ LET s0 == Cur
           s1 == IF s0.needsReset THEN reset(s0) ELSE s0
           s2 == updateUniforms(s1, getAdditionalUniformParams)
           s3 == IF (frameCount + 1) % params.renderFrequency = 0
                 THEN renderFrame(s2, FALSE, TRUE) ELSE s2
       IN Commit(s3, "step", "none", 0)
    /\ frameCount' = frameCount + 1
    /\ UNCHANGED <<params, isRunning, currentProbX, currentScoreData>>

(* TreePackerApp.step *)
Step ==
    /\ frameCount < MaxFrame
    /\ LET s0 == Cur
           s1 == IF s0.needsReset THEN reset(s0) ELSE s0
           additionalParams == getAdditionalUniformParams
           uniformParams == [probX |-> additionalParams.probX,
                             effectiveCompression |-> additionalParams.effectiveCompression,
                             compression |-> additionalParams.effectiveCompression]
           s2 == updateUniforms(s1, uniformParams)
           s3 == renderFrame(s2, FALSE, TRUE)
       IN Commit(s3, "step", "none", 0)
    /\ frameCount' = frameCount + 1
    /\ UNCHANGED <<params, isRunning, currentProbX, currentScoreData>>

Start ==
    /\ ~isRunning
    /\ isRunning' = TRUE
    /\ last' = [op |-> "start", kind |-> "none", arg |-> 0, ev |-> <<>>, res |-> "none",
                score |-> Null, uni |-> Null, written |-> Null, uniCompression |-> Null,
                dispatched |-> Null]
    /\ UNCHANGED <<params, simVars, bufVars, passes, stalePasses, gpuVars, frameCount, currentProbX, currentScoreData,
                   storeVars, fnLast, loopVars>>

Stop ==
    /\ isRunning
    /\ isRunning' = FALSE
    /\ last' = [op |-> "stop", kind |-> "none", arg |-> 0, ev |-> <<>>, res |-> "none",
                score |-> Null, uni |-> Null, written |-> Null, uniCompression |-> Null,
                dispatched |-> Null]
    /\ UNCHANGED <<params, simVars, bufVars, passes, stalePasses, gpuVars, frameCount, currentProbX, currentScoreData,
                   storeVars, fnLast, loopVars>>

(* the reset button, TreePackerApp.reset, or markForReset called directly *)
MarkForReset ==
    /\ Commit(markForReset(Cur), "markForReset", "none", 0)
    /\ UNCHANGED <<params, appVars>>

(* parameters.set(key, value) with the observers of the running app *)
SetParam(op, key, value) ==
    IF ~ValidateParameter(key, value)
    THEN /\ last' = [op |-> op, kind |-> "none", arg |-> value, ev |-> <<"warn">>,
                     res |-> "false", score |-> Null, uni |-> Null, written |-> Null,
                     uniCompression |-> Null,
                dispatched |-> Null]
         /\ UNCHANGED <<params, simVars, bufVars, passes, stalePasses, gpuVars, appVars, storeVars, fnLast, loopVars>>
    ELSE LET oldValue == params[key]
             notify == oldValue # value
             s1 == IF notify /\ key = "treeCount"
                   THEN TreeCountObserver([Cur EXCEPT !.ev = <<"notify">>], value)
                   ELSE IF notify THEN [Cur EXCEPT !.ev = <<"notify">>] ELSE Cur
         IN /\ params' = [params EXCEPT ![key] = value]
            /\ isRunning' = IF notify /\ key = "treeCount" THEN FALSE ELSE isRunning
            /\ Commit([s1 EXCEPT !.res = "true"], op, "none", value)
            /\ UNCHANGED <<frameCount, currentProbX, currentScoreData>>

SetTreeCount == \E v \in TreeCountInputs : SetParam("set", "treeCount", v)

SetRenderFrequency == \E v \in RenderFreqInputs : SetParam("set", "renderFrequency", v)


(* SimulationParameters.reset: every default goes through set; treeCount  *)
(* is the one whose observer acts on the simulator, renderFrequency is    *)
(* not among the defaults                                                  *)
ParamsReset == SetParam("paramsReset", "treeCount", DefaultTreeCount)

(* TreePackerApp.updateScore after physicsSimulator.updateScore returned *)
AppScoreContinuation(p, s) ==
    IF p.caller = "app" /\ s.res = "snapshot"
    THEN /\ currentProbX' = s.snap[1].probX
         /\ currentScoreData' = s.snap
    ELSE UNCHANGED <<currentProbX, currentScoreData>>

(* the staging buffer of an updateScore pass is mapped: the pass resumes *)
ResolveUpdateScore ==
    \E p \in passes :
        /\ p.kind = "updateScore"
        /\ \E hasBounds \in BOOLEAN, b \in BoundsInputs, coll \in 0..1 :
              /\ (~hasBounds => b = MkBounds(0, 0, 0, 0) /\ coll = 0)
              /\ LET s == ResumeUpdateScore(Cur, p, hasBounds, b, coll)
                 IN /\ Commit(s, "resume", p.kind, 0)
                    /\ AppScoreContinuation(p, s)
        /\ UNCHANGED <<params, isRunning, frameCount>>

(* the staging buffer of a processFeedbackLoop pass is mapped *)
ResolveFeedbackLoop ==
    \E p \in passes :
        /\ p.kind = "processFeedbackLoop"
        /\ \E b \in BoundsInputs :
              Commit(ResumeFeedbackLoop(Cur, p, b), "resume", p.kind, 0)
        /\ UNCHANGED <<params, appVars>>

(* a map request fails (device lost, buffer destroyed) *)
MapRejected ==
    \E p \in passes :
        /\ Commit(RejectPass(Cur, p), "rejected", p.kind, 0)
        /\ UNCHANGED <<params, appVars>>

(* ---------------- PhysicsSimulator called directly ---------------- *)
DirectUpdateScore ==
    \E fault \in {"none", "throw"} :
        LET s == CallPass(Cur, "updateScore", "direct", fault, params.treeCount)
        IN /\ WithinBounds(s)
           /\ Commit(s, "call", "updateScore", 0)
           /\ UNCHANGED <<params, appVars>>

DirectProcessFeedbackLoop ==
    \E fault \in {"none", "throw"} :
        LET s == CallPass(Cur, "processFeedbackLoop", "direct", fault, params.treeCount)
        IN /\ WithinBounds(s)
           /\ Commit(s, "call", "processFeedbackLoop", 0)
           /\ UNCHANGED <<params, appVars>>

DirectReset ==
    /\ Commit(reset(Cur), "reset", "none", 0)
    /\ UNCHANGED <<params, appVars>>

(* reset() with the array it writes *)
ResetSpawn ==
    \E rnd \in [1..params.treeCount -> TreeDraws] :
        LET treeData == spawnTreeData(params.treeCount, rnd)
            s == [reset(Cur) EXCEPT !.written = Some(treeData)]
        IN /\ Commit(s, "reset", "none", params.treeCount)
           /\ UNCHANGED <<params, appVars>>

DirectHandleTreeCountChange ==
    \E n \in TreeCountValues :
        /\ Commit(SimHandleTreeCountChange(Cur, n), "handleTreeCountChange", "none", n)
        /\ UNCHANGED <<params, appVars>>

(* ---------------- SimulationParameters called directly ---------------- *)
StoreSet ==
    \E key \in StoreKeys, value \in StoreValues :
      \E beh \in IF validateParameter(key, value) /\ StrictNotEqual(get(store, key), value)
                  THEN BehavioursOf(observers) ELSE {NoBehaviour} :
        LET r == set(store, observers, beh, key, value)
        IN /\ store' = r.store
           /\ observers' = r.observers
           /\ storeLast' = [op |-> "set", key |-> key, value |-> value,
                            old |-> get(store, key), res |-> r.res, ev |-> r.ev]
           /\ UNCHANGED <<params, simVars, bufVars, passes, stalePasses, gpuVars, appVars, last, fnLast, loopVars,
                        constraints>>

(* subscribe(callback) with a callback that is not subscribed at present *)
StoreSubscribe ==
    \E c \in Callbacks \ Range(observers) :
        /\ observers' = subscribe(observers, c)
        /\ storeLast' = [op |-> "subscribe", key |-> "", value |-> JSNum(c),
                         old |-> JSUndefined, res |-> "none", ev |-> <<>>]
        /\ UNCHANGED <<store, params, simVars, bufVars, passes, stalePasses, gpuVars, appVars, last, fnLast, loopVars,
                        constraints>>

(* the unsubscribe function of a callback, called outside a notification *)
StoreUnsubscribe ==
    \E c \in Callbacks :
        /\ observers' = unsubscribe(observers, c)
        /\ storeLast' = [op |-> "unsubscribe", key |-> "", value |-> JSNum(c),
                         old |-> JSUndefined, res |-> "none", ev |-> <<>>]
        /\ UNCHANGED <<store, params, simVars, bufVars, passes, stalePasses, gpuVars, appVars, last, fnLast, loopVars,
                        constraints>>

StoreReset ==
    \E beh \in BehavioursOf(observers) :
        LET r == storeReset(store, observers, beh, 1, <<>>)
        IN /\ store' = r.store
           /\ observers' = r.observers
           /\ storeLast' = [op |-> "reset", key |-> "", value |-> JSUndefined,
                            old |-> JSUndefined, res |-> "none", ev |-> r.ev]
           /\ UNCHANGED <<params, simVars, bufVars, passes, stalePasses, gpuVars, appVars, last, fnLast, loopVars,
                        constraints>>

(* set of a declared parameter to a value of its kind while a subscribed  *)
(* callback throws                                                         *)
ObserverValues ==
    {JSNum(TreeCountMin), JSNum(DefaultTreeCount), JSBool(TRUE), JSBool(FALSE)}

StoreSetThrowing ==
    \E key \in DOMAIN StoreConstraints, value \in ObserverValues :
      \E beh \in ThrowingBehavioursOf(observers) :
        LET r == set(store, observers, beh, key, value)
        IN /\ store' = r.store
           /\ observers' = r.observers
           /\ storeLast' = [op |-> "set", key |-> key, value |-> value,
                            old |-> get(store, key), res |-> r.res, ev |-> r.ev]
           /\ UNCHANGED <<params, simVars, bufVars, passes, stalePasses, gpuVars, appVars, last, fnLast, loopVars,
                        constraints>>

(* ---------------- functions applied on their own ---------------- *)
(* aspect ratios tried: below, at and above 1 *)
AspectInputs == {JSQuot(1, MaxAspect), JSQuot(1, 1), JSQuot(MaxAspect, 1)}
FeedbackInputs ==
    {JSNull, JSUndefined} \cup
    {FeedbackData(a) : a \in AspectInputs \cup {JSNaN, JSUndefined}}

(* stored values tried: the defaults, the minimum 0.1, multiples of the  *)
(* step 0.1, and 0 for compression                                        *)
UniformStores ==
    [zoom : {JSQuot(2, 1), JSQuot(1, 10)},
     compression : {JSQuot(1, 1), JSQuot(0, 1), JSQuot(3, 10)},
     aspect : {JSQuot(1, 1), JSQuot(1, 10)}]
ProbXInputs == {JSUndefined, JSQuot(1, 2), JSQuot(0, 1), JSQuot(7, 10)}
FrameCountInputs == {JSQuot(0, 1), JSQuot(MaxFrame, 1)}

GetUniforms ==
    \E p \in UniformStores, time \in FrameCountInputs, probX \in ProbXInputs :
        /\ fnLast' = [fn |-> "getUniforms",
                      args |-> <<p, time, [probX |-> probX]>>,
                      out |-> getUniformsBlock(p, time, [probX |-> probX])]
        /\ UNCHANGED <<params, simVars, bufVars, passes, stalePasses, gpuVars, appVars, last, storeVars, loopVars>>

StoreGetAll ==
    /\ fnLast' = [fn |-> "getAll", args |-> <<>>, out |-> getAll(store)]
    /\ UNCHANGED <<params, simVars, bufVars, passes, stalePasses, gpuVars, appVars, last, storeVars, loopVars>>

StoreGetConstraints ==
    \E key \in StoreKeys :
        /\ fnLast' = [fn |-> "getConstraints", args |-> <<key>>, out |-> getConstraints(key)]
        /\ UNCHANGED <<params, simVars, bufVars, passes, stalePasses, gpuVars, appVars, last, storeVars, loopVars>>

(* the caller assigns a property of the object the last call returned; an *)
(* assignment through a reference to an object of the store changes that *)
(* object                                                                   *)
ParamsMutations == {[key |-> "treeCount", value |-> JSNum(TreeCountMax + 1)],
                    [key |-> "autoPack", value |-> JSNaN]}
ConstraintMutations == {[key |-> "min", value |-> Some(TreeCountMin - 1)],
                        [key |-> "max", value |-> Null],
                        [key |-> "type", value |-> "boolean"]}
Assign(obj, key, value) == [k \in DOMAIN obj \cup {key} |-> IF k = key THEN value ELSE obj[k]]

MutateReturned ==
    /\ fnLast.fn \in {"getAll", "getConstraints"}
    /\ \E m \in IF fnLast.fn = "getAll" THEN ParamsMutations ELSE ConstraintMutations :
          LET o == fnLast.out
              obj == Assign(o.obj, m.key, m.value)
          IN /\ fnLast' = [fn |-> "mutate", args |-> <<fnLast.fn, m.key, m.value>>,
                           out |-> Returned(o.ref, obj)]
             /\ store' = IF o.ref = "params" THEN obj ELSE store
             /\ constraints' = IF o.ref \in DOMAIN constraints
                                THEN [constraints EXCEPT ![o.ref] = obj]
                                ELSE constraints
    /\ UNCHANGED <<params, simVars, bufVars, passes, stalePasses, gpuVars, appVars, last, observers, storeLast,
                   loopVars>>

CalculateCompressionProbabilities ==
    \E autoPack \in {JSBool(TRUE), JSBool(FALSE)}, targetAspect \in AspectInputs,
       feedbackData \in FeedbackInputs :
        /\ fnLast' = [fn |-> "calculateCompressionProbabilities",
                      args |-> <<autoPack, targetAspect, feedbackData>>,
                      out |-> calculateCompressionProbabilities(autoPack, targetAspect,
                                                                feedbackData)]
        /\ UNCHANGED <<params, simVars, bufVars, passes, stalePasses, gpuVars, appVars, last, storeVars, loopVars>>

(* ---------------- specifications ---------------- *)
(* the simulator driven through its own methods *)
Next ==
    \/ DirectUpdateScore
    \/ DirectProcessFeedbackLoop
    \/ DirectReset
    \/ MarkForReset
    \/ DirectHandleTreeCountChange
    \/ ResolveUpdateScore
    \/ ResolveFeedbackLoop
    \/ MapRejected

Spec == Init /\ [][Next]_vars

(* the application as the page runs it *)
NextApp ==
    \/ Tick
    \/ Step
    \/ Start
    \/ Stop
    \/ MarkForReset
    \/ SetTreeCount
    \/ SetRenderFrequency
    \/ ParamsReset
    \/ ResolveUpdateScore
    \/ MapRejected

SpecApp == Init /\ [][NextApp]_vars

(* ---------------- the animation-frame scheduler ---------------- *)
(* an animation frame begins: the callbacks requested so far are the     *)
(* ones this frame runs; requests made while they run wait for the next  *)
BeginFrame ==
    /\ frameQueue = 0
    /\ scheduled > 0
    /\ frameCount < MaxFrame
    /\ frameQueue' = scheduled
    /\ scheduled' = 0
    /\ frameStart' = frameCount
    /\ UNCHANGED <<params, simVars, bufVars, passes, stalePasses, gpuVars, appVars, last,
                   storeVars, fnLast>>

(* the scheduler runs one renderLoop callback of the current frame; the  *)
(* callback ends by requesting itself again                               *)
LoopTick ==
    /\ frameQueue > 0
    /\ frameCount < MaxFrame
    /\ LET s0 == updateUniforms(Cur, getAdditionalUniformParams)
           s1 == IF s0.needsReset THEN reset(s0) ELSE s0
           s2 == IF isRunning /\ frameCount % ScoreInterval = 0
                 THEN CallPass(s1, "updateScore", "app", "none", params.treeCount)
                 ELSE s1
           renderFrequency == params.renderFrequency
           shouldRender == (frameCount % renderFrequency = 0)
           s3 == IF shouldRender THEN renderFrame(s2, FALSE, isRunning) ELSE s2
           s4 == [s3 EXCEPT !.ev = Append(@, "requestAnimationFrame")]
       IN /\ WithinBounds(s4)
          /\ CommitTask(s4, "tick", "none", 0)
    /\ frameCount' = frameCount + 1
    /\ frameQueue' = frameQueue - 1
    /\ scheduled' = startRenderLoop(scheduled)
    /\ UNCHANGED <<params, isRunning, currentProbX, currentScoreData, frameStart>>

(* the page between two animation frames: the buttons and the promises   *)
BetweenFrames ==
    /\ frameQueue = 0
    /\ \/ Start
       \/ Stop
       \/ MarkForReset
       \/ ResolveUpdateScore

NextLoop ==
    \/ BeginFrame
    \/ LoopTick
    \/ BetweenFrames

SpecLoop == Init /\ [][NextLoop]_vars

(* the parameter store driven through its own methods *)
NextParams ==
    \/ StoreSet
    \/ StoreSubscribe
    \/ StoreUnsubscribe
    \/ StoreReset

SpecParams == Init /\ [][NextParams]_vars

(* the simulator over stores with few trees, with the array reset writes *)
NextSpawn ==
    \/ ResetSpawn
    \/ MarkForReset
    \/ DirectUpdateScore
    \/ ResolveUpdateScore

SpecSpawn == InitSpawn /\ [][NextSpawn]_vars

(* methods that compute a value and change nothing *)
NextFunctions ==
    \/ CalculateCompressionProbabilities
    \/ GetUniforms

SpecFunctions == Init /\ [][NextFunctions]_vars

(* the parameter store and the objects it hands out *)
NextCopies ==
    \/ StoreSet
    \/ StoreGetAll
    \/ StoreGetConstraints
    \/ MutateReturned

SpecCopies == Init /\ [][NextCopies]_vars

(* the parameter store with subscribers that throw *)
NextObservers ==
    \/ StoreSetThrowing
    \/ StoreSubscribe
    \/ StoreUnsubscribe

SpecObservers == Init /\ [][NextObservers]_vars

TypeOK ==
    /\ params.treeCount \in TreeCountValues
    /\ isProcessingFeedback \in BOOLEAN
    /\ needsReset \in BOOLEAN
    /\ stagnationCount \in 0..MaxStagnation
    /\ Cardinality(passes) <= MaxPasses


(* ---------------- reading the last task's effects ---------------- *)
Has(e, seq) == \E i \in 1..Len(seq) : seq[i] = e
Count(e, seq) == Cardinality({i \in 1..Len(seq) : seq[i] = e})
Before(e, f, seq) == \A i, j \in 1..Len(seq) : (seq[i] = e /\ seq[j] = f) => i < j

TreeBytes(n) == n * FLOATS_PER_TREE * BYTES_PER_FLOAT

(* a === b on numbers *)
RatEq(a, b) == ~RatLess(a, b) /\ ~RatLess(b, a)

(* ---------------- properties ---------------- *)

(* C1: in every reachable state at most one feedback pass is outstanding  *)
(* between its start and its return.                                       *)
AtMostOneOutstandingPass == Cardinality(passes) <= 1

(* C2: every failure inside a feedback pass (a throw of the buffer layer, *)
(* a rejected map request, a readback shorter than treeCount records)     *)
(* ends with the pass returning null, the error logged through            *)
(* logger.error, and isProcessingFeedback false.                           *)
FailureInPass ==
    /\ last.op \in {"call", "resume", "rejected"}
    /\ (Has("throw", last.ev) \/ Has("mapRejected", last.ev) \/ Has("short", last.ev))

EveryFailureCaughtLoggedNull ==
    FailureInPass =>
        /\ last.res = "null"
        /\ Has("logError", last.ev)
        /\ ~isProcessingFeedback

(* C3: a call of updateScore or processFeedbackLoop made while a pass is  *)
(* outstanding returns null, issues no GPU copy and no map request, and   *)
(* leaves bestScore, stagnationCount, currentBounds unchanged and         *)
(* isProcessingFeedback true.                                              *)
CallWhileOutstandingIsNoOp ==
    [][(passes # {} /\ last'.op = "call") =>
          /\ last'.res = "null"
          /\ ~Has("copy", last'.ev)
          /\ ~Has("mapAsync", last'.ev)
          /\ bestScore' = bestScore
          /\ stagnationCount' = stagnationCount
          /\ currentBounds' = currentBounds
          /\ isProcessingFeedback'
          /\ passes' = passes]_vars

(* C4: a staging buffer that a pass has mapped is unmapped again by the   *)
(* time the pass returns, on every exit path; as a pass resumes and       *)
(* returns within one task, no buffer is ever left mapped between tasks.  *)
MappedBufferUnmappedOnReturn ==
    \A i \in ReadIds : mapState[i] # "mapped"

(* C5: in both updateScore and processFeedbackLoop a readback holding     *)
(* fewer than treeCount * 8 floats aborts the pass: no record is          *)
(* interpreted, currentBounds, bestScore and stagnationCount are left     *)
(* unchanged, an error is logged, the gate is cleared, null is returned.  *)
ShortReadbackAbortsPass ==
    [][(last'.op = "resume" /\ Has("short", last'.ev)) =>
          /\ ~Has("interpret", last'.ev)
          /\ currentBounds' = currentBounds
          /\ bestScore' = bestScore
          /\ stagnationCount' = stagnationCount
          /\ Has("logError", last'.ev)
          /\ ~isProcessingFeedback'
          /\ last'.res = "null"]_vars

(* C6: no failure leaves scoring stalled: once every started pass has     *)
(* returned and the gate is clear, the next pass that is started (the     *)
(* buffer layer not throwing) is admitted and its map request on the      *)
(* staging buffer is accepted, so that it can complete.                    *)
NextPassCanMapAfterFailure ==
    [][(passes = {} /\ ~isProcessingFeedback /\ last'.op = "call"
            /\ ~Has("throw", last'.ev)) =>
          /\ Has("mapAsync", last'.ev)
          /\ ~Has("mapRejected", last'.ev)
          /\ passes' # {}]_vars

(* C7: a pending reset is performed exactly once, by the next tick (loop  *)
(* tick or step), before that tick's kernel dispatch; needsReset stays    *)
(* true from markForReset until that reset and is false after it; no      *)
(* reset runs while no reset is pending.                                   *)
ResetExactlyOncePerMark ==
    [][/\ (needsReset /\ last'.op \in {"tick", "step"}) =>
             /\ Count("reset", last'.ev) = 1
             /\ Before("reset", "dispatch", last'.ev)
             /\ ~needsReset'
       /\ ~needsReset => ~Has("reset", last'.ev)
       /\ (needsReset /\ ~needsReset') => Has("reset", last'.ev)
       /\ Has("reset", last'.ev) => ~needsReset']_vars

(* C7 witness: a loop tick that found a reset pending has reset and then  *)
(* dispatched the kernel                                                   *)
TickResetThenDispatch ==
    /\ last.op = "tick"
    /\ Has("reset", last.ev)
    /\ Has("dispatch", last.ev)
    /\ ~needsReset

(* C8: handleTreeCountChange(n) creates new tree and read buffers, sets   *)
(* the reset flag and returns true iff n * 8 * 4 differs from the current *)
(* tree buffer size; otherwise it returns false and leaves buffers and    *)
(* reset flag as they were; either way the tree buffer then has n * 8 * 4 *)
(* bytes, so that repeating the call returns false.                        *)
ResizeIffByteSizeDiffers ==
    [][last'.op = "handleTreeCountChange" =>
          /\ (last'.res = "true") <=> (TreeBytes(last'.arg) # treeBuffer.size)
          /\ last'.res = "true" =>
                /\ treeBuffer'.id # treeBuffer.id
                /\ readBuffer'.id # readBuffer.id
                /\ readBuffer'.size = TreeBytes(last'.arg)
                /\ Has("createTreeBuffer", last'.ev)
                /\ Has("createReadBuffer", last'.ev)
                /\ needsReset'
          /\ last'.res # "true" =>
                /\ last'.res = "false"
                /\ UNCHANGED <<treeBuffer, readBuffer, mapState, needsReset>>
          /\ treeBuffer'.size = TreeBytes(last'.arg)]_vars

(* C8 witness: a call with the current size returned false while a reset  *)
(* was pending                                                             *)
RepeatedResizeReturnedFalse ==
    /\ last.op = "handleTreeCountChange"
    /\ last.res = "false"
    /\ needsReset
    /\ treeBuffer.size # TreeBytes(DefaultTreeCount)

(* C9: in the application the tree buffer and the staging buffer always   *)
(* have treeCount * 8 * 4 bytes, and every change of treeCount replaces   *)
(* both by newly created buffers.                                          *)
BufferSizesFollowTreeCount ==
    /\ [](/\ treeBuffer.size = TreeBytes(params.treeCount)
          /\ readBuffer.size = TreeBytes(params.treeCount))
    /\ [][params'.treeCount # params.treeCount =>
             /\ treeBuffer'.id # treeBuffer.id
             /\ readBuffer'.id \notin ({readBuffer.id} \cup {p.rb : p \in passes})
             /\ mapState'[readBuffer'.id] = "unmapped"]_vars

(* C9 witness: treeCount has been changed while a pass was outstanding,   *)
(* and the buffers have been created anew                                  *)
TreeCountChangedBuffersReplaced ==
    /\ last.op = "set"
    /\ params.treeCount # DefaultTreeCount
    /\ Has("createReadBuffer", last.ev)
    /\ passes # {}

(* C10: a pass that returns a score snapshot leaves bestScore no larger   *)
(* than before, sets stagnationCount to 0 if the new score is strictly    *)
(* less than the previous bestScore and to its previous value + 1         *)
(* otherwise (a tie increments); a pass that returns null, or a           *)
(* processFeedbackLoop pass, changes neither.                              *)
ScoreMonotoneStagnationCounts ==
    [][last'.op \in {"call", "resume", "rejected"} =>
          IF last'.kind = "updateScore" /\ last'.res = "snapshot"
          THEN /\ RatLeq(bestScore', bestScore)
               /\ RatLeq(bestScore', last'.score[1])
               /\ stagnationCount' =
                     IF RatLess(last'.score[1], bestScore) THEN 0
                     ELSE stagnationCount + 1
          ELSE /\ bestScore' = bestScore
               /\ stagnationCount' = stagnationCount]_vars

(* C10 witness: a pass has returned a snapshot whose score ties the best  *)
(* score, and stagnationCount went up                                     *)
TieIncrementedStagnation ==
    /\ last.op = "resume"
    /\ last.kind = "updateScore"
    /\ last.res = "snapshot"
    /\ ~RatLess(last.score[1], bestScore)
    /\ ~RatLess(bestScore, last.score[1])
    /\ stagnationCount > 0

PhysicsDispatchedEveryRunningTick ==
    [][last'.op = "tick" =>
          /\ isRunning => Count("dispatch", last'.ev) = 1
          /\ ~isRunning => ~Has("dispatch", last'.ev)
          /\ Has("draw", last'.ev) <=> (frameCount % params.renderFrequency = 0)]_vars

(* C13: when a tick kicks off a scoring pass, the copy of the tree buffer *)
(* into the staging buffer is enqueued after the kernel dispatch of that  *)
(* same tick.                                                              *)
ScoreCopyAfterDispatch ==
    [][(last'.op = "tick" /\ Has("copy", last'.ev)) =>
          /\ Has("dispatch", last'.ev)
          /\ Before("dispatch", "copy", last'.ev)]_vars

(* C14: a loop tick calls updateScore exactly when the app is running and *)
(* the frame index is a multiple of 10; the tick does not wait for the    *)
(* pass: it renders and schedules the next tick with the pass still       *)
(* outstanding, and leaves currentProbX / currentScoreData alone; these   *)
(* change only when a pass started by an earlier task resumes with a      *)
(* snapshot.                                                               *)
TickStartsPassWithoutWaiting ==
    [][/\ last'.op = "tick" =>
             /\ Has("call", last'.ev) <=> (isRunning /\ frameCount % ScoreInterval = 0)
             /\ passes \subseteq passes'
             /\ passes' # passes =>
                   /\ Has("mapAsync", last'.ev)
                   /\ Before("mapAsync", "requestAnimationFrame", last'.ev)
                   /\ (frameCount % params.renderFrequency = 0) =>
                         /\ Has("draw", last'.ev)
                         /\ Before("mapAsync", "draw", last'.ev)
             /\ Count("requestAnimationFrame", last'.ev) = 1
             /\ frameCount' = frameCount + 1
             /\ UNCHANGED <<currentProbX, currentScoreData>>
       /\ (currentProbX' # currentProbX \/ currentScoreData' # currentScoreData) =>
             /\ last'.op = "resume"
             /\ last'.res = "snapshot"
             /\ \E p \in passes : p \notin passes']_vars

(* C14 witness: the tick of frame 10 has started a pass, drawn, and ended *)
(* with the pass outstanding                                               *)
TickLeftPassOutstanding ==
    /\ last.op = "tick"
    /\ frameCount = ScoreInterval + 1
    /\ Has("mapAsync", last.ev)
    /\ Has("draw", last.ev)
    /\ passes # {}
    /\ isProcessingFeedback

(* C15: each step() advances frameCount by exactly one, performs a        *)
(* pending reset first, writes the uniforms, and issues exactly one       *)
(* renderFrame with physics enabled and readback disabled, whatever       *)
(* isRunning and renderFrequency are.                                      *)
StepAdvancesOneFrame ==
    [][last'.op = "step" =>
          /\ frameCount' = frameCount + 1
          /\ needsReset =>
                /\ Count("reset", last'.ev) = 1
                /\ Before("reset", "writeUniforms", last'.ev)
                /\ ~needsReset'
          /\ ~needsReset => ~Has("reset", last'.ev)
          /\ Count("writeUniforms", last'.ev) = 1
          /\ Count("dispatch", last'.ev) = 1
          /\ Count("draw", last'.ev) = 1
          /\ Count("submit", last'.ev) = 1
          /\ Before("writeUniforms", "dispatch", last'.ev)
          /\ ~Has("copyForFeedback", last'.ev)
          /\ ~Has("copy", last'.ev)
          /\ UNCHANGED <<isRunning, params>>]_vars

(* C15 witness: a step taken while paused, on a frame the render throttle *)
(* would have skipped, has reset and rendered                              *)
StepWhilePausedOffThrottle ==
    /\ last.op = "step"
    /\ ~isRunning
    /\ params.renderFrequency = 2
    /\ frameCount % 2 = 1
    /\ Has("reset", last.ev)
    /\ Has("dispatch", last.ev)

(* C16: after every accepted, value-changing set of treeCount the app is  *)
(* paused, the bind groups have been rebuilt (after the buffers) and a    *)
(* reset is pending; start() sets isRunning without touching the pending  *)
(* reset, and the next tick performs it.                                   *)
TreeCountChangePausesAndMarksReset ==
    [][/\ (last'.op \in {"set", "paramsReset"}
              /\ params'.treeCount # params.treeCount) =>
             /\ last'.res = "true"
             /\ ~isRunning'
             /\ Has("updateBindGroup", last'.ev)
             /\ Before("createTreeBuffer", "updateBindGroup", last'.ev)
             /\ Before("createReadBuffer", "updateBindGroup", last'.ev)
             /\ needsReset'
       /\ last'.op = "start" =>
             /\ isRunning'
             /\ needsReset' = needsReset
       /\ (needsReset /\ last'.op = "tick") =>
             /\ Has("reset", last'.ev)
             /\ ~needsReset']_vars

(* C16 witness: start() pressed after a tree count change, the reset      *)
(* still pending                                                           *)
StartedWithResetPending ==
    /\ last.op = "start"
    /\ isRunning
    /\ needsReset
    /\ params.treeCount # DefaultTreeCount

(* what the parameter declarations ask of a value: the declared type,     *)
(* and for a number the inclusive range                                    *)
DeclaredValid(k, v) ==
    /\ k \in DOMAIN StoreConstraints
    /\ IF StoreConstraints[k].type = "boolean" THEN v.t = "boolean"
       ELSE /\ v.t = "num"
            /\ v.v >= StoreConstraints[k].min[1]
            /\ v.v <= StoreConstraints[k].max[1]

(* C17: after any sequence of set() and reset() calls with arbitrary keys *)
(* and values every declared parameter is stored, every stored numeric    *)
(* parameter is a non-NaN number within its inclusive bounds, every       *)
(* stored boolean parameter is a boolean; a set with an out-of-range      *)
(* number leaves the store as it was (nothing is clamped into range).     *)
StoredValuesWithinConstraints ==
    /\ [](/\ \A k \in DOMAIN StoreConstraints :
                k \in DOMAIN store /\ DeclaredValid(k, store[k])
          /\ \A k \in DOMAIN store : store[k].t \in {"num", "boolean"})
    /\ [][(storeLast'.op = "set"
              /\ storeLast'.key \in DOMAIN StoreConstraints
              /\ storeLast'.value.t = "num"
              /\ ~DeclaredValid(storeLast'.key, storeLast'.value)) =>
             /\ store' = store
             /\ storeLast'.res = "false"]_vars

(* C17 witness: after treeCount was changed, a set above the maximum was  *)
(* rejected and the stored value is still the one set before              *)
OutOfRangeRejectedNotClamped ==
    /\ storeLast.op = "set"
    /\ storeLast.key = "treeCount"
    /\ storeLast.value = JSNum(TreeCountMax + 1)
    /\ storeLast.res = "false"
    /\ store.treeCount = JSNum(TreeCountMin)

(* C18: set(P, v) returns true iff P is a known parameter and v satisfies *)
(* P's declared type / range; when it returns true get(P) = v afterwards; *)
(* when it returns false no stored value changes and no observer is       *)
(* invoked.                                                                *)
SetTrueIffKnownAndValid ==
    [][storeLast'.op = "set" =>
          /\ (storeLast'.res = "true") <=> DeclaredValid(storeLast'.key, storeLast'.value)
          /\ storeLast'.res = "true" => get(store', storeLast'.key) = storeLast'.value
          /\ storeLast'.res # "true" =>
                /\ storeLast'.res = "false"
                /\ store' = store
                /\ observers' = observers
                /\ storeLast'.ev = <<>>]_vars

(* C19: for every parameter P, set(P, get(P)) returns true, leaves every  *)
(* stored value unchanged and invokes no subscriber.                       *)
SetCurrentValueIsSilent ==
    [][(storeLast'.op = "set"
           /\ storeLast'.key \in DOMAIN StoreConstraints
           /\ storeLast'.value = get(store, storeLast'.key)) =>
          /\ storeLast'.res = "true"
          /\ store' = store
          /\ observers' = observers
          /\ storeLast'.ev = <<>>]_vars

(* C19 witness: with every callback subscribed, treeCount was set to the  *)
(* value it already had (not the default)                                  *)
SetSameValueWithSubscribers ==
    /\ storeLast.op = "set"
    /\ storeLast.key = "treeCount"
    /\ storeLast.value = storeLast.old
    /\ storeLast.value # JSNum(DefaultTreeCount)
    /\ storeLast.res = "true"
    /\ Len(observers) = MaxCallbacks

(* C20: on every accepted, value-changing set each callback subscribed at *)
(* the call is invoked exactly once within the call, with                  *)
(* (name, newValue, oldValue), unless its unsubscribe function has been   *)
(* called before its turn; no callback is invoked after its unsubscribe   *)
(* function was called, and none that is not subscribed; unsubscribe      *)
(* calls made inside a callback during the notification included.         *)
EverySubscriberNotifiedOnce ==
    [][(storeLast'.op = "set" /\ storeLast'.res = "true"
           /\ StrictNotEqual(storeLast'.old, storeLast'.value)) =>
          LET ev == storeLast'.ev
              callsOf(c) == {i \in 1..Len(ev) : ev[i][1] = "call" /\ ev[i][2] = c}
              unsubsOf(c) == {i \in 1..Len(ev) : ev[i][1] = "unsub" /\ ev[i][2] = c}
          IN \A c \in Callbacks :
                IF c \in Range(observers)
                THEN /\ Cardinality(callsOf(c)) <= 1
                     /\ callsOf(c) = {} => unsubsOf(c) # {}
                     /\ \A i \in callsOf(c), j \in unsubsOf(c) : i < j
                     /\ \A i \in callsOf(c) :
                           ev[i][3] = <<storeLast'.key, storeLast'.value, storeLast'.old>>
                ELSE callsOf(c) = {}]_vars

(* C21: if a subscriber throws during a notification, every other         *)
(* subscribed callback is still invoked for that change, set() does not   *)
(* throw and returns true, and the new value stays stored (a callback     *)
(* whose unsubscribe function was called in the notification excepted).   *)
ThrowingSubscriberIsolated ==
    [][(storeLast'.op = "set"
           /\ \E i \in 1..Len(storeLast'.ev) : storeLast'.ev[i][1] = "error") =>
          LET ev == storeLast'.ev
              callsOf(c) == {i \in 1..Len(ev) : ev[i][1] = "call" /\ ev[i][2] = c}
              unsubsOf(c) == {i \in 1..Len(ev) : ev[i][1] = "unsub" /\ ev[i][2] = c}
          IN /\ \A c \in Range(observers) : callsOf(c) = {} => unsubsOf(c) # {}
             /\ storeLast'.res = "true"
             /\ get(store', storeLast'.key) = storeLast'.value]_vars

(* C22: after SimulationParameters.reset() every known parameter holds    *)
(* its documented default (renderFrequency included), and the observers   *)
(* are notified exactly once for each parameter whose value differed from *)
(* its default before the call and not at all for the others.             *)
ResetRestoresEveryDefault ==
    [][storeLast'.op = "reset" =>
          LET ev == storeLast'.ev
              callsOf(c, k) == {i \in 1..Len(ev) : /\ ev[i][1] = "call"
                                                   /\ ev[i][2] = c
                                                   /\ ev[i][3][1] = k}
              unsubscribed(c) == \E i \in 1..Len(ev) : ev[i][1] = "unsub" /\ ev[i][2] = c
          IN /\ \A k \in DOMAIN StoreConstraints : get(store', k) = DefaultStore[k]
             /\ \A k \in DOMAIN StoreConstraints :
                   \A c \in Range(observers) :
                      ~unsubscribed(c) =>
                         Cardinality(callsOf(c, k)) =
                            IF get(store, k) # DefaultStore[k] THEN 1 ELSE 0]_vars

(* the lanes of tree i (from 0) in a tree data array *)
LaneOf(treeData, i, lane) == treeData[i * FLOATS_PER_TREE + lane + 1]
(* a rational below 2 * pi *)
TwoPiFloor == [n |-> 6283, d |-> 1000]

CompressionProbabilitiesByAspect ==
    [][fnLast'.fn = "calculateCompressionProbabilities" =>
          LET autoPack == fnLast'.args[1]
              aspect == fnLast'.args[2]
              d == fnLast'.args[3]
              out == fnLast'.out
              given == autoPack = JSBool(TRUE) /\ d.t = "object"
                          /\ d.currentAspect.t = "num"
              wide == given /\ RatLess(aspect.v, d.currentAspect.v)
              tall == given /\ RatLess(d.currentAspect.v, aspect.v)
          IN /\ wide => out = [probX |-> Ratio(6, 5), probY |-> Ratio(4, 5)]
             /\ tall => out = [probX |-> Ratio(4, 5), probY |-> Ratio(6, 5)]
             /\ (~wide /\ ~tall) => out = [probX |-> Ratio(1, 1), probY |-> Ratio(1, 1)]
             /\ UNCHANGED <<params, simVars, bufVars, passes, appVars, storeVars>>]_vars

(* C24 witness: with autoPack on, a layout exactly at the target aspect   *)
(* got the neutral probabilities                                           *)
NeutralAtTargetAspect ==
    /\ fnLast.fn = "calculateCompressionProbabilities"
    /\ fnLast.args[1] = JSBool(TRUE)
    /\ fnLast.args[3].t = "object"
    /\ fnLast.args[3].currentAspect = fnLast.args[2]
    /\ fnLast.out = [probX |-> Ratio(1, 1), probY |-> Ratio(1, 1)]

(* a === b on values that are numbers or NaN *)
SameNumber(a, b) == a.t = "num" /\ b.t = "num" /\ RatEq(a.v, b.v)
(* the probX of a getUniforms call: the override, 0.5 when not supplied *)
ProbXOf(additionalParams) ==
    IF additionalParams.probX = JSUndefined THEN JSQuot(1, 2) ELSE additionalParams.probX
(* n / d with d a power of two and n below 2^24 *)
Dyadic(q) == (\E k \in 0..30 : q.d = 2^k) /\ q.n <= 2^24 /\ -q.n <= 2^24

(* C25: getUniforms(deltaTime, frameCount, overrides) always returns the  *)
(* 8-element block [zoom, compression, probX, frameCount, aspect, 0, 0,   *)
(* 0] of the stored zoom, compression and aspect, with probX from the     *)
(* overrides or 0.5 when not supplied, and neither modifies the store nor *)
(* notifies observers.                                                     *)
UniformBlockIsStoredValues ==
    [][fnLast'.fn = "getUniforms" =>
          LET p == fnLast'.args[1]
              block == fnLast'.out
              expected == <<p.zoom, p.compression, ProbXOf(fnLast'.args[3]),
                            fnLast'.args[2], p.aspect,
                            JSQuot(0, 1), JSQuot(0, 1), JSQuot(0, 1)>>
          IN /\ Len(block) = 8
             /\ \A i \in 1..8 : SameNumber(block[i], expected[i])
             /\ UNCHANGED storeVars]_vars

(* C25 as amended: every lane of the block is the single-precision float  *)
(* nearest to the value it is taken from, equal to that value when the    *)
(* value is a single-precision float itself.                               *)
UniformBlockIsStoredValuesAsFloat32 ==
    [][fnLast'.fn = "getUniforms" =>
          LET p == fnLast'.args[1]
              block == fnLast'.out
              expected == <<p.zoom, p.compression, ProbXOf(fnLast'.args[3]),
                            fnLast'.args[2], p.aspect,
                            JSQuot(0, 1), JSQuot(0, 1), JSQuot(0, 1)>>
          IN /\ Len(block) = 8
             /\ \A i \in 1..8 :
                   /\ block[i].t = "num"
                   /\ Dyadic(block[i].v)
                   /\ Dyadic(expected[i].v) => SameNumber(block[i], expected[i])
                   \* within half a unit in the 24th place of the value
                   /\ LET diff == block[i].v.n * expected[i].v.d
                                      - expected[i].v.n * block[i].v.d
                          abs == IF diff < 0 THEN -diff ELSE diff
                      IN abs * 2^24 <= expected[i].v.n * block[i].v.d
             /\ UNCHANGED storeVars]_vars

(* C25 witness: a block built from zoom 0.1, the default compression and  *)
(* no probX override                                                       *)
UniformBlockWithDefaultProbX ==
    /\ fnLast.fn = "getUniforms"
    /\ fnLast.args[1].zoom = JSQuot(1, 10)
    /\ fnLast.args[1].compression = JSQuot(1, 1)
    /\ fnLast.args[3].probX = JSUndefined
    /\ SameNumber(fnLast.out[3], JSQuot(1, 2))
    /\ ~SameNumber(fnLast.out[1], JSQuot(1, 10))

(* C26: the objects getAll() and getConstraints(name) return are          *)
(* independent copies: a mutation of a returned object changes no stored  *)
(* value and no constraint, so that every later get(), getAll() and       *)
(* getConstraints() result and the validation of set() are as before.     *)
ReturnedObjectsAreCopies ==
    /\ [](constraints = StoreConstraints)
    /\ [][(fnLast'.fn = "mutate" /\ fnLast' # fnLast) =>
             store' = store /\ constraints' = constraints]_vars
    /\ [][(fnLast'.fn = "getAll" /\ fnLast' # fnLast) => fnLast'.out.obj = store']_vars
    /\ [](fnLast.fn = "getConstraints" /\ fnLast.args[1] \in DOMAIN StoreConstraints =>
             fnLast.out.obj = StoreConstraints[fnLast.args[1]])
    /\ [][storeLast'.op = "set" /\ storeLast' # storeLast =>
             (storeLast'.res = "true") =
                (\/ DeclaredValid(storeLast'.key, storeLast'.value)
                 \/ storeLast'.key \in InheritedKeys /\ storeLast'.value.t = "num")]_vars

(* C26 witness: after treeCount was set to its minimum, the object        *)
(* getAll returned was given a treeCount above the maximum and the store  *)
(* still holds the minimum                                                 *)
CopyMutatedStoreKept ==
    /\ fnLast.fn = "mutate"
    /\ fnLast.args[1] = "getAll"
    /\ fnLast.out.obj.treeCount = JSNum(TreeCountMax + 1)
    /\ store.treeCount = JSNum(TreeCountMin)

(* C27: in step() lane 1 of the uniform block written to the GPU is the   *)
(* ratcheted compression: 0 when the last score snapshot reports          *)
(* collisionCount > 0, the value of the compression parameter otherwise.  *)
StepWritesRatchetedCompression ==
    [][last'.op = "step" =>
          last'.uniCompression =
             Some(IF currentScoreData # Null /\ currentScoreData[1].collisionCount > 0
                  THEN 0 ELSE params.compression)]_vars


(* a step on which a pass that was outstanding at a reset completes *)
StaleCompletion == \E p \in stalePasses : p \notin passes'

(* C28: a pass that was already in flight when PhysicsSimulator.reset ran
   changes none of bestScore, stagnationCount, currentBounds,
   currentScoreData and currentProbX when it completes *)
StalePassChangesNothing ==
    [][StaleCompletion =>
          UNCHANGED <<bestScore, stagnationCount, currentBounds,
                      currentScoreData, currentProbX>>]_vars


(* C29: the kernel is never dispatched against a tree buffer that a
   tree-count change reallocated and reset has not populated: at every
   dispatch of a loop tick or of step the compute bind group refers to the
   current tree buffer and that buffer holds the data reset wrote *)
DispatchOnlyOnPopulatedBuffer ==
    [][(last'.op \in {"tick", "step"} /\ last'.dispatched # Null) =>
          /\ last'.dispatched[1].populated
          /\ last'.dispatched[1].bound = last'.dispatched[1].treeBuffer]_vars

(* a tick or step that dispatched on a reallocated buffer, after the reset
   of the same task populated it *)
DispatchedAfterResizeAndReset ==
    /\ last.op \in {"tick", "step"}
    /\ last.dispatched # Null
    /\ Before("reset", "dispatch", last.ev)
    /\ treeBuffer.size # DefaultTreeCount * FLOATS_PER_TREE * BYTES_PER_FLOAT
    /\ computeBindGroup = treeBuffer.id


(* C30: after init exactly one render-loop callback chain is scheduled:
   an animation frame runs exactly one tick, and with no step call
   frameCount has advanced by exactly 1 when the frame's callbacks are done *)
OneRenderLoopChain ==
    [][/\ (frameQueue = 0 /\ frameQueue' > 0) => frameQueue' = 1
       /\ (frameQueue > 0 /\ frameQueue' = 0) => frameCount' = frameStart' + 1]_vars

====
